---- MODULE Spec2Model ----
(***************************************************************************)
(* systemd-slack: the units watcher of package systemd (systemd.go) and    *)
(* its caller (main.go).  The watcher polls the service manager for the    *)
(* listing of units, compares it with the state it holds, logs every unit  *)
(* that appeared, changed or disappeared, and flushes the state to a       *)
(* gzip+gob state file.                                                    *)
(***************************************************************************)
EXTENDS Integers, Sequences, FiniteSets, TLC

\* Longest listing ListUnits returns in the model.
MaxListLen == 2

\* Most I/O failures of store in one behaviour.
MaxFaults == 1

(***************************************************************************)
(* dbus.UnitStatus values.  A value is its Path and its ActiveState: Name  *)
(* is a function of Path (NameOf), LoadState and SubState are functions of *)
(* ActiveState, and the other fields are the same in all of them.          *)
(***************************************************************************)
Paths == {"/unit/a", "/unit/b"}

NameOf(p) == IF p = "/unit/a" THEN "a.service" ELSE IF p = "/unit/b" THEN "b.service" ELSE ""

\* The states each unit is seen in: b.service never fails.
ActiveStates(p) == IF p = "/unit/a" THEN {"active", "failed"} ELSE {"active"}

UnitStatus(p, a) == [Path |-> p, ActiveState |-> a]

UnitStatuses == UNION {{UnitStatus(p, a) : a \in ActiveStates(p)} : p \in Paths}

\* The zero value of dbus.UnitStatus.
NoUnit == [Path |-> "", ActiveState |-> ""]

\* The results of a successful conn.ListUnits call.
Listings == UNION {[1..n -> UnitStatuses] : n \in 0..MaxListLen}

\* An isEqual that compares the names only.
isEqualNameOnly(u, u2) == NameOf(u.Path) = NameOf(u2.Path)

\* Unit.isEqual: Go struct equality, every field of dbus.UnitStatus.
isEqual(u, u2) == u = u2

\* make(map[string]Unit)
EmptyState == [p \in {} |-> NoUnit]

Max(a, b) == IF a >= b THEN a ELSE b

\* The orders in which a range over a Go map may visit the keys in S.
Orders(S) == {o \in [1..Cardinality(S) -> S] : \A i, j \in DOMAIN o : o[i] = o[j] => i = j}

PathsOf(units) == {units[i].Path : i \in DOMAIN units}

(***************************************************************************)
(* The state file.  Its content is a sequence of tokens: the gzip stream   *)
(* of a map is one token per map entry followed by the gzip trailer, whose *)
(* checksum covers the entries before it.                                  *)
(***************************************************************************)
Rec(u) == [t |-> "rec", u |-> u, crc |-> <<>>]

End(us) == [t |-> "end", u |-> NoUnit, crc |-> us]

\* Bytes that are no gzip stream.
Junk == [t |-> "junk", u |-> NoUnit, crc |-> <<>>]

\* gob.NewEncoder(gzip.NewWriter(f)).Encode(sd.state): the byte streams the
\* encoder can produce for st; gob writes the entries in map iteration order.
Encodings(st) ==
    {LET us == [i \in DOMAIN o |-> st[o[i]]]
     IN  [i \in DOMAIN us |-> Rec(us[i])] \o <<End(us)>> : o \in Orders(DOMAIN st)}

\* The positions of the file that hold a gzip trailer.
Ends(file) == {i \in DOMAIN file : file[i].t = "end"}

\* The position of the first one.
FirstEnd(file) == CHOOSE i \in Ends(file) : \A j \in Ends(file) : i <= j

\* gzip.NewReader(f) and Decode succeed on the stream at the start of the
\* file; what follows the trailer is not read.
Decodable(file) ==
    /\ Ends(file) # {}
    /\ \A i \in 1..(FirstEnd(file) - 1) : file[i].t = "rec"
    /\ file[FirstEnd(file)].crc = [i \in 1..(FirstEnd(file) - 1) |-> file[i].u]

\* The map gob decodes from a decodable file.
Decoded(file) ==
    LET us == {file[i].u : i \in 1..(FirstEnd(file) - 1)}
    IN  [p \in {u.Path : u \in us} |-> CHOOSE u \in us : u.Path = p]

\* A write of bytes at offset 0 of a file opened without O_TRUNC.
WriteAt0(file, bytes) ==
    [i \in 1..Max(Len(file), Len(bytes)) |-> IF i <= Len(bytes) THEN bytes[i] ELSE file[i]]

\* A load that takes a file it cannot decode for a first run.
loadResetOnCorrupt(fileExists, content, lstatErr, openErr) ==
    IF lstatErr THEN [err |-> "lstat", state |-> EmptyState, bootstrap |-> FALSE]
    ELSE IF ~fileExists THEN [err |-> "nil", state |-> EmptyState, bootstrap |-> TRUE]
    ELSE IF Len(content) = 0 THEN [err |-> "nil", state |-> EmptyState, bootstrap |-> FALSE]
    ELSE IF openErr THEN [err |-> "open", state |-> EmptyState, bootstrap |-> FALSE]
    ELSE IF ~Decodable(content) THEN [err |-> "nil", state |-> EmptyState, bootstrap |-> TRUE]
    ELSE [err |-> "nil", state |-> Decoded(content), bootstrap |-> FALSE]

\* A load that enables bootstrap mode on an empty file too.
loadBootstrapOnEmpty(fileExists, content, lstatErr, openErr) ==
    IF lstatErr THEN [err |-> "lstat", state |-> EmptyState, bootstrap |-> FALSE]
    ELSE IF ~fileExists THEN [err |-> "nil", state |-> EmptyState, bootstrap |-> TRUE]
    ELSE IF Len(content) = 0 THEN [err |-> "nil", state |-> EmptyState, bootstrap |-> TRUE]
    ELSE IF openErr THEN [err |-> "open", state |-> EmptyState, bootstrap |-> FALSE]
    ELSE IF ~Decodable(content) THEN [err |-> "decode", state |-> EmptyState, bootstrap |-> FALSE]
    ELSE [err |-> "nil", state |-> Decoded(content), bootstrap |-> FALSE]

(***************************************************************************)
(* Systemd.load.  lstatErr: os.Lstat fails with an error other than "not   *)
(* exist"; openErr: os.OpenFile fails.  The result is the error returned   *)
(* and the fields load leaves in sd (state starts as the empty map and     *)
(* bootstrap as false).                                                    *)
(***************************************************************************)
load(fileExists, content, lstatErr, openErr) ==
    IF lstatErr THEN [err |-> "lstat", state |-> EmptyState, bootstrap |-> FALSE]
    ELSE IF ~fileExists THEN [err |-> "nil", state |-> EmptyState, bootstrap |-> TRUE]
    ELSE IF Len(content) = 0 THEN [err |-> "nil", state |-> EmptyState, bootstrap |-> FALSE]
    ELSE IF openErr THEN [err |-> "open", state |-> EmptyState, bootstrap |-> FALSE]
    ELSE IF ~Decodable(content) THEN [err |-> "decode", state |-> EmptyState, bootstrap |-> FALSE]
    ELSE [err |-> "nil", state |-> Decoded(content), bootstrap |-> FALSE]

(***************************************************************************)
(* The events of one poll cycle, in the order the code performs them.      *)
(***************************************************************************)
Ev(ev, kind, u) == [ev |-> ev, kind |-> kind, u |-> u]

\* sd.logf of a unit's status ("status") or of its deletion ("deleted").
Logf(kind, u) == Ev("logf", kind, u)

\* The log lines among the events: the transitions the cycle emitted.
Batch(tr) == SelectSeq(tr, LAMBDA e : e.ev = "logf")

\* A first run that is reported like any other.
QuietNever(bootstrapFlag, firstFlag) == FALSE

\* "don't report anything on the first run": sd.bootstrap && first
Quiet(bootstrapFlag, firstFlag) == bootstrapFlag /\ firstFlag

(***************************************************************************)
(* The first loop of Next, from the i-th listed unit on: a unit that is    *)
(* not in the state, or is in it with other fields, is put in the state    *)
(* and logged unless quiet.                                                *)
(***************************************************************************)
RECURSIVE Update(_, _, _, _)
Update(units, i, st, quiet) ==
    IF i > Len(units) THEN [state |-> st, logs |-> <<>>, flush |-> FALSE]
    ELSE LET s == units[i]
         IN  IF s.Path \in DOMAIN st /\ isEqual(st[s.Path], s)
             THEN Update(units, i + 1, st, quiet)
             ELSE LET st2 == [p \in DOMAIN st \cup {s.Path} |-> IF p = s.Path THEN s ELSE st[p]]
                      rest == Update(units, i + 1, st2, quiet)
                  IN  [state |-> rest.state,
                       logs |-> (IF quiet THEN <<>> ELSE <<Logf("status", s)>>) \o rest.logs,
                       flush |-> TRUE]

\* The keys the second loop of Next deletes.
Gone(st, units) == DOMAIN st \ PathsOf(units)

\* A second loop that logs the deletions and keeps the keys.
RemoveKeepsKeys(st, units, ord) ==
    [state |-> st,
     logs |-> [i \in DOMAIN ord |-> Logf("deleted", st[ord[i]])],
     flush |-> Gone(st, units) # {}]

\* The second loop of Next, visiting the deleted keys in the order ord.
Remove(st, units, ord) ==
    [state |-> [p \in DOMAIN st \ Gone(st, units) |-> st[p]],
     logs |-> [i \in DOMAIN ord |-> Logf("deleted", st[ord[i]])],
     flush |-> Gone(st, units) # {}]

\* A store in every cycle.
NeedStoreAlways(flush) == TRUE

\* "if flush { sd.store() }"
NeedStore(flush) == flush

VARIABLES
    exists,     \* the state file exists
    file,       \* its content
    pc,         \* "none": no watcher; "idle": constructed, not in Next; "loop": in Next, asleep
    conn,       \* the dbus connection: "none", "open", "closed", "leaked"
    state,      \* sd.state
    bootstrap,  \* sd.bootstrap
    first,      \* the local first of Next (TRUE at every entry)
    units,      \* the listing of the last cycle that fetched one
    trace,      \* the events of the last poll cycle
    op,         \* the last operation: "New", "Next", "Close"
    err,        \* the error that operation returned, "nil" if none or still running
    cyc,        \* the last operation is this watcher's "first" or a "later" cycle ("none": no cycle yet)
    same,       \* the last cycle fetched the listing its predecessor in this watcher fetched
    faults      \* the I/O failures of store so far

vars == <<exists, file, pc, conn, state, bootstrap, first, units, trace, op, err, cyc, same, faults>>

Init ==
    /\ exists \in BOOLEAN
    /\ file \in IF exists THEN {<<>>, <<Junk>>} ELSE {<<>>}
    /\ pc = "none"
    /\ conn = "none"
    /\ state = EmptyState
    /\ bootstrap = FALSE
    /\ first = TRUE
    /\ units = <<>>
    /\ trace = <<>>
    /\ op = "none"
    /\ err = "nil"
    /\ cyc = "none"
    /\ same = FALSE
    /\ faults = 0

(***************************************************************************)
(* Systemd.store.  bytes is the encoding of the state, written the number  *)
(* of tokens that reached the file; openErr: os.OpenFile fails; writeErr:  *)
(* Encode returns an error.  A write that fails when the deferred w.Close  *)
(* flushes the compressed data is not reported: store returns Encode's     *)
(* result.                                                                 *)
(***************************************************************************)
store(fileExists, content, bytes, written, openErr, writeErr) ==
    IF openErr THEN [exists |-> fileExists, file |-> content, err |-> "store"]
    ELSE [exists |-> TRUE,
          file |-> WriteAt0(content, SubSeq(bytes, 1, written)),
          err |-> IF writeErr THEN "store" ELSE "nil"]

(***************************************************************************)
(* New: dbus.New, the construction of sd and sd.load.                      *)
(***************************************************************************)
New(dialOk, lstatErr, openErr) ==
    /\ pc = "none"
    /\ op' = "New"
    /\ cyc' = "none"
    /\ same' = FALSE
    /\ first' = TRUE
    /\ UNCHANGED <<exists, file, units, trace, faults>>
    /\ IF ~dialOk
       THEN /\ err' = "dial"
            /\ conn' = "none"
            /\ UNCHANGED <<pc, state, bootstrap>>
       ELSE LET l == load(exists, file, lstatErr, openErr)
            IN  /\ err' = l.err
                /\ IF l.err = "nil"
                   THEN /\ pc' = "idle"
                        /\ conn' = "open"
                        /\ state' = l.state
                        /\ bootstrap' = l.bootstrap
                   ELSE /\ conn' = "leaked"
                        /\ UNCHANGED <<pc, state, bootstrap>>

\* The number of the cycle a watcher runs next.
NextCyc == IF cyc = "none" THEN "first" ELSE "later"

\* The last operation of this watcher was a poll cycle that fetched a listing.
Fetched == op = "Next" /\ err # "list"

\* A Next that takes a failed listing for an empty one and deletes every unit.
ListFailedMasked ==
    /\ pc \in {"idle", "loop"}
    /\ \E ord \in Orders(DOMAIN state) :
          trace' = <<Ev("ListUnits", "error", NoUnit)>> \o Remove(state, <<>>, ord).logs
                      \o <<Ev("return", "error", NoUnit)>>
    /\ state' = EmptyState
    /\ err' = "list"
    /\ pc' = "idle"
    /\ first' = TRUE
    /\ op' = "Next"
    /\ cyc' = NextCyc
    /\ same' = FALSE
    /\ UNCHANGED <<exists, file, conn, bootstrap, units, faults>>

(***************************************************************************)
(* Next, one iteration of its loop in which conn.ListUnits fails: the      *)
(* error is returned.                                                      *)
(***************************************************************************)
ListFailed ==
    /\ pc \in {"idle", "loop"}
    /\ trace' = <<Ev("ListUnits", "error", NoUnit), Ev("return", "error", NoUnit)>>
    /\ err' = "list"
    /\ pc' = "idle"
    /\ first' = TRUE
    /\ op' = "Next"
    /\ cyc' = NextCyc
    /\ same' = FALSE
    /\ UNCHANGED <<exists, file, conn, state, bootstrap, units, faults>>

\* The two loops run the other way round: the deletions are logged first.
CycleOfRemovalsFirst(up, rm) ==
    [state |-> rm.state, logs |-> rm.logs \o up.logs, flush |-> up.flush \/ rm.flush]

\* Both loops of Next over the listing ls, the second in the order ord.
CycleOf(up, rm) ==
    [state |-> rm.state, logs |-> up.logs \o rm.logs, flush |-> up.flush \/ rm.flush]

Cycle(ls, ord) ==
    LET up == Update(ls, 1, state, Quiet(bootstrap, first))
    IN  CycleOf(up, Remove(up.state, ls, ord))

\* The orders the second loop may take after the first loop over ls.
CycleOrders(ls) == Orders(Gone(Update(ls, 1, state, TRUE).state, ls))

\* What every iteration that fetched the listing ls does to the watcher.
Fetch(ls, c) ==
    /\ pc \in {"idle", "loop"}
    /\ state' = c.state
    /\ units' = ls
    /\ op' = "Next"
    /\ cyc' = NextCyc
    /\ same' = (Fetched /\ ls = units)
    /\ UNCHANGED <<conn, bootstrap>>

(***************************************************************************)
(* Next, one iteration of its loop in which nothing is flushed: the loop   *)
(* sleeps and goes on.                                                     *)
(***************************************************************************)
PollNoStore(ls) ==
    \E ord \in CycleOrders(ls) :
    \E c \in {Cycle(ls, ord)} :
        /\ ~NeedStore(c.flush)
        /\ Fetch(ls, c)
        /\ trace' = <<Ev("ListUnits", "ok", NoUnit)>> \o c.logs \o <<Ev("Sleep", "", NoUnit)>>
        /\ err' = "nil"
        /\ pc' = "loop"
        /\ first' = FALSE
        /\ UNCHANGED <<exists, file, faults>>

(***************************************************************************)
(* Next, one iteration of its loop that calls store: if store returns nil  *)
(* the loop sleeps and goes on, otherwise Next returns the error.  short:  *)
(* not all of the encoding reached the file.                               *)
(***************************************************************************)
PollStore(ls, openErr, writeErr, short) ==
    /\ (openErr \/ writeErr \/ short) => faults < MaxFaults
    /\ faults' = IF openErr \/ writeErr \/ short THEN faults + 1 ELSE faults
    /\ \E ord \in CycleOrders(ls) :
       \E c \in {Cycle(ls, ord)} :
          /\ NeedStore(c.flush)
          /\ Fetch(ls, c)
          /\ \E bytes \in Encodings(c.state) :
             \E written \in (IF short THEN 0..(Len(bytes) - 1) ELSE {Len(bytes)}) :
             \E w \in {store(exists, file, bytes, written, openErr, writeErr)} :
                /\ exists' = w.exists
                /\ file' = w.file
                /\ err' = w.err
                /\ trace' = <<Ev("ListUnits", "ok", NoUnit)>> \o c.logs
                               \o <<Ev("store", w.err, NoUnit)>>
                               \o <<IF w.err = "nil" THEN Ev("Sleep", "", NoUnit)
                                                     ELSE Ev("return", "error", NoUnit)>>
                /\ pc' = IF w.err = "nil" THEN "loop" ELSE "idle"
                /\ first' = (w.err # "nil")

\* store writes the whole encoding.
Stored(ls) ==
    /\ pc \in {"idle", "loop"}
    /\ PollStore(ls, FALSE, FALSE, FALSE)

\* os.OpenFile fails in store.
StoreOpenFailed(ls) ==
    /\ pc \in {"idle", "loop"}
    /\ PollStore(ls, TRUE, FALSE, FALSE)

\* Encode fails in store after a part of the encoding was written.
StoreWriteFailed(ls) ==
    /\ pc \in {"idle", "loop"}
    /\ PollStore(ls, FALSE, TRUE, TRUE)

\* The deferred w.Close fails in store after a part of the encoding was
\* written; store returns nil.
StoreCloseFailed(ls) ==
    /\ pc \in {"idle", "loop"}
    /\ PollStore(ls, FALSE, FALSE, TRUE)

(***************************************************************************)
(* Close, as start defers it and TestNew calls it; the watcher is not used *)
(* afterwards.                                                             *)
(***************************************************************************)
Close ==
    /\ pc = "idle"
    /\ pc' = "none"
    /\ conn' = "closed"
    /\ op' = "Close"
    /\ err' = "nil"
    /\ state' = EmptyState
    /\ bootstrap' = FALSE
    /\ first' = TRUE
    /\ cyc' = "none"
    /\ same' = FALSE
    /\ UNCHANGED <<exists, file, units, trace, faults>>

Next ==
    \/ \E dialOk, lstatErr, openErr \in BOOLEAN : New(dialOk, lstatErr, openErr)
    \/ ListFailed
    \/ \E ls \in Listings : PollNoStore(ls)
    \/ \E ls \in Listings : Stored(ls)
    \/ Close

\* The watcher on a file system on which store does not fail.
Spec == Init /\ [][Next]_vars

NextIO ==
    \/ Next
    \/ \E ls \in Listings : StoreOpenFailed(ls)
    \/ \E ls \in Listings : StoreWriteFailed(ls)
    \/ \E ls \in Listings : StoreCloseFailed(ls)

\* The watcher on a file system on which store may fail.
SpecIO == Init /\ [][NextIO]_vars

(***************************************************************************)
(* Notions the properties are stated with.                                 *)
(***************************************************************************)

\* No two units of the listing have the same path.
DistinctPaths(ls) == \A i, j \in DOMAIN ls : ls[i].Path = ls[j].Path => i = j

\* The listing keyed by path: the last unit listed under each path.
AsMap(ls) ==
    [p \in PathsOf(ls) |->
        ls[CHOOSE i \in DOMAIN ls : ls[i].Path = p /\ \A j \in DOMAIN ls : ls[j].Path = p => j <= i]]

\* The number of log lines of the given kind about the unit of path p.
Count(batch, kind, p) == Cardinality({i \in DOMAIN batch : batch[i].kind = kind /\ batch[i].u.Path = p})

\* The cycle called store.
StoreCalled(tr) == \E i \in DOMAIN tr : tr[i].ev = "store"

\* A step that is a poll cycle which fetched a listing.
FetchStep == op' = "Next" /\ err' # "list"

\* The keys of the listing ls that are not in the snapshot st, or are in it with other fields.
Differing(st, ls) == {p \in PathsOf(ls) : p \notin DOMAIN st \/ st[p] # AsMap(ls)[p]}

(***************************************************************************)
(* C1. Bootstrap suppression.  A watcher that New created when no state    *)
(* file existed is in bootstrap mode.  Its first poll cycle, over any      *)
(* non-empty listing, logs no transition, and after the cycle sd.state     *)
(* holds exactly the units fetched: its keys are the paths listed and each *)
(* key maps to the unit listed under it.                                   *)
(***************************************************************************)
BootstrapSuppression ==
    (op = "Next" /\ cyc = "first" /\ bootstrap /\ err # "list" /\ units # <<>>) =>
        /\ Batch(trace) = <<>>
        /\ state = AsMap(units)

\* A bootstrap watcher's first cycle fetched two units, logged nothing and holds both.
BootstrapSuppressionWitness ==
    /\ op = "Next" /\ cyc = "first" /\ bootstrap /\ err = "nil"
    /\ Len(units) = 2 /\ DistinctPaths(units)
    /\ Batch(trace) = <<>>
    /\ DOMAIN state = Paths
    /\ StoreCalled(trace)

(***************************************************************************)
(* C2. Diff correctness.  In a poll cycle that is not suppressed, from the *)
(* snapshot P = sd.state held before it and over a fetched listing C whose *)
(* units have distinct paths (the listing is keyed by path), the cycle     *)
(* logs exactly one status line, with the listed unit, per key of C that   *)
(* is absent from P or present in P with other fields, exactly one deleted *)
(* line, with the unit held, per key of P absent from C, and no line for   *)
(* a key of both with the same fields; the number of lines is the sum.     *)
(***************************************************************************)
DiffCorrectness ==
    [][(FetchStep /\ ~(bootstrap /\ first) /\ DistinctPaths(units')) =>
        LET P == state
            C == units'
            batch == Batch(trace')
        IN  /\ \A k \in Paths :
                /\ Count(batch, "status", k) = IF k \in Differing(P, C) THEN 1 ELSE 0
                /\ Count(batch, "deleted", k) = IF k \in DOMAIN P \ PathsOf(C) THEN 1 ELSE 0
            /\ \A i \in DOMAIN batch :
                /\ batch[i].kind = "status" => batch[i].u = AsMap(C)[batch[i].u.Path]
                /\ batch[i].kind = "deleted" => batch[i].u = P[batch[i].u.Path]
            /\ Len(batch) = Cardinality(PathsOf(C) \ DOMAIN P)
                              + Cardinality(DOMAIN P \ PathsOf(C))
                              + Cardinality({k \in DOMAIN P \cap PathsOf(C) : P[k] # AsMap(C)[k]})
    ]_vars

\* A cycle that was not suppressed logged a changed unit and a deleted one.
DiffCorrectnessWitness ==
    /\ op = "Next" /\ err = "nil" /\ ~bootstrap
    /\ DistinctPaths(units)
    /\ \E i, j \in DOMAIN Batch(trace) :
        /\ Batch(trace)[i].kind = "status" /\ Batch(trace)[i].u.ActiveState = "failed"
        /\ Batch(trace)[j].kind = "deleted"

(***************************************************************************)
(* C3. Round-trip persistence.  After a store of the snapshot S that       *)
(* returned nil, whatever the state file held before (nothing, zero bytes, *)
(* or an earlier snapshot of any size), load yields S, and the file holds  *)
(* an encoding of S and nothing else: no byte of the earlier content is    *)
(* left.  (store opens the file without os.O_TRUNC: this fails when the    *)
(* earlier content is longer than the encoding of S.)                      *)
(***************************************************************************)
RoundTripPersistence ==
    (op = "Next" /\ StoreCalled(trace) /\ err = "nil") =>
        /\ load(exists, file, FALSE, FALSE) = [err |-> "nil", state |-> state, bootstrap |-> FALSE]
        /\ file \in Encodings(state)

(***************************************************************************)
(* C4. Idempotent no-op cycle, as claimed for any listing: if a poll cycle *)
(* fetches the listing the cycle before it fetched, it logs no transition, *)
(* leaves sd.state as it was and does not call store (the state file is    *)
(* not written).                                                           *)
(***************************************************************************)
IdempotentCycleAnyListing ==
    [][(Fetched /\ FetchStep /\ units' = units) =>
        /\ Batch(trace') = <<>>
        /\ state' = state
        /\ ~StoreCalled(trace')
        /\ file' = file /\ exists' = exists
    ]_vars

(***************************************************************************)
(* C4, amended: the same for a listing whose units have pairwise distinct  *)
(* paths.                                                                  *)
(***************************************************************************)
IdempotentCycle ==
    [][(Fetched /\ FetchStep /\ units' = units /\ DistinctPaths(units)) =>
        /\ Batch(trace') = <<>>
        /\ state' = state
        /\ ~StoreCalled(trace')
        /\ file' = file /\ exists' = exists
    ]_vars

\* A cycle fetched the two units its predecessor fetched, logged nothing and did not store.
IdempotentCycleWitness ==
    /\ op = "Next" /\ err = "nil" /\ same
    /\ Len(units) = 2 /\ DistinctPaths(units)
    /\ Batch(trace) = <<>>
    /\ ~StoreCalled(trace)
    /\ state = AsMap(units)

\* What Next hands to its caller when it returns: "return nil, err".
ReturnedBatch == <<>>

(***************************************************************************)
(* C5. One batch per poll cycle.  A call of Next whose ListUnits and store *)
(* succeed has returned to its caller after that one cycle, and the batch  *)
(* it returned is the transitions the cycle detected.                      *)
(***************************************************************************)
NextYieldsBatch ==
    (op = "Next" /\ err = "nil") =>
        /\ pc = "idle"
        /\ ReturnedBatch = Batch(trace)

(***************************************************************************)
(* C6. At-most-once notification.  A transition of a unit is logged at     *)
(* most once, whatever fails or restarts in between: when a poll cycle     *)
(* fetches the listing that the poll cycle before it fetched (of this      *)
(* watcher or of the one the process ran before its restart), so that no   *)
(* unit has changed in between, it logs no line the earlier cycle logged.  *)
(* The listings are those of distinct paths.                               *)
(***************************************************************************)
AtMostOnce ==
    [][(FetchStep /\ units' = units /\ DistinctPaths(units')) =>
        \A i \in DOMAIN Batch(trace'), j \in DOMAIN Batch(trace) : Batch(trace')[i] # Batch(trace)[j]
    ]_vars

(***************************************************************************)
(* C7. Persist before yield.  In a poll cycle every log line of a          *)
(* transition comes after a store of the updated snapshot that returned    *)
(* nil; when store fails, the cycle has logged no transition.              *)
(***************************************************************************)
PersistBeforeYield ==
    op = "Next" =>
        /\ \A i \in DOMAIN trace : trace[i].ev = "logf" =>
              \E j \in 1..(i - 1) : trace[j].ev = "store" /\ trace[j].kind = "nil"
        /\ err = "store" => Batch(trace) = <<>>

(***************************************************************************)
(* C8. A listing failure is propagated, not masked.  When ListUnits fails  *)
(* in a poll cycle, Next returns the error at once: ListUnits is called    *)
(* once, no transition is logged (no deleted line), and sd.state and the   *)
(* state file are as they were before the cycle.                           *)
(***************************************************************************)
ListingFailurePropagated ==
    [][(op' = "Next" /\ err' = "list") =>
        /\ pc' = "idle"
        /\ Cardinality({i \in DOMAIN trace' : trace'[i].ev = "ListUnits"}) = 1
        /\ trace'[Len(trace')].ev = "return"
        /\ Batch(trace') = <<>>
        /\ state' = state
        /\ file' = file /\ exists' = exists
    ]_vars

\* Next returned a listing error while the watcher held a unit and the file a snapshot.
ListingFailurePropagatedWitness ==
    /\ op = "Next" /\ err = "list" /\ pc = "idle"
    /\ state # EmptyState
    /\ exists /\ Decodable(file)
    /\ Batch(trace) = <<>>

(***************************************************************************)
(* C9. Corrupt state is fatal.  When the state file exists, is not empty   *)
(* and is not a decodable stream, load fails and New returns an error: no  *)
(* watcher is created (none in bootstrap mode, none with an empty          *)
(* snapshot), and the file is left as it was.                              *)
(***************************************************************************)
CorruptStateIsFatal ==
    [][(op' = "New" /\ exists /\ file # <<>> /\ ~Decodable(file)) =>
        /\ err' # "nil"
        /\ pc' = "none"
        /\ file' = file /\ exists' = exists
    ]_vars

\* New failed to decode a state file that is there and not empty.
CorruptStateIsFatalWitness ==
    /\ op = "New" /\ err = "decode" /\ pc = "none"
    /\ exists /\ file # <<>> /\ ~Decodable(file)

FailedIsTerminal ==
    [][(op = "Next" /\ err # "nil" /\ pc = "idle") => op' # "Next"]_vars

(***************************************************************************)
(* C12. Bootstrap suppression is one-time.  Whatever the number of calls   *)
(* of Next on a watcher, a poll cycle whose status lines are not the lines *)
(* of all the units it added or changed (a suppressed cycle) starts from   *)
(* the empty sd.state; a cycle that starts from a snapshot that holds a    *)
(* unit, as every cycle after the suppressed one that entered units does,  *)
(* logs all its added and changed units.  (first is a local of Next, true  *)
(* again at every call, and sd.bootstrap is never cleared.)                *)
(***************************************************************************)
SuppressionIsOneTime ==
    [][FetchStep =>
        LET emitted == SelectSeq(Batch(trace'), LAMBDA e : e.kind = "status")
        IN  emitted # Update(units', 1, state, FALSE).logs => state = EmptyState
    ]_vars

(***************************************************************************)
(* C13. Memory/disk consistency.  At the end of every poll cycle that      *)
(* completes without error (at the sleep), load of the state file succeeds *)
(* and yields sd.state, an absent or zero-length file counting as the      *)
(* empty snapshot; and every cycle that changed sd.state, suppressed or    *)
(* not, called store.  (store returns the result of Encode and drops the   *)
(* error of the deferred w.Close, which is what writes the compressed data *)
(* to the file.)                                                           *)
(***************************************************************************)
MemoryDiskConsistency ==
    [][(FetchStep /\ err' = "nil") =>
        /\ pc' = "loop"
        /\ load(exists', file', FALSE, FALSE).err = "nil"
        /\ load(exists', file', FALSE, FALSE).state = state'
        /\ state' # state => StoreCalled(trace')
    ]_vars

(***************************************************************************)
(* C14. The snapshot tracks the listing.  After every poll cycle that      *)
(* fetched a listing, suppressed or not and whatever store did, the keys   *)
(* of sd.state are the paths of the units listed, each key maps to the     *)
(* unit listed under it (the last one, if the listing repeats the path),   *)
(* and no other key is left; after an empty listing sd.state is empty.     *)
(***************************************************************************)
SnapshotTracksListing ==
    (op = "Next" /\ err # "list") =>
        /\ DOMAIN state = PathsOf(units)
        /\ \A i \in DOMAIN units :
              (\A j \in DOMAIN units : units[j].Path = units[i].Path => j <= i) =>
                  state[units[i].Path] = units[i]
        /\ units = <<>> => state = EmptyState

\* A cycle fetched the empty listing while two units were held: both were
\* logged as deleted and the snapshot is empty.
SnapshotTracksListingWitness ==
    /\ op = "Next" /\ err = "nil"
    /\ units = <<>>
    /\ state = EmptyState
    /\ Len(Batch(trace)) = 2
    /\ \A i \in DOMAIN Batch(trace) : Batch(trace)[i].kind = "deleted"

\* The status lines among the log lines of a cycle.
StatusLines(tr) == SelectSeq(Batch(tr), LAMBDA e : e.kind = "status")

(***************************************************************************)
(* C15. Transition order.  Among the log lines of one poll cycle no        *)
(* deleted line comes before a status line, and the status lines are in    *)
(* the order of the listing: they are the units at increasing positions of *)
(* the fetched listing.                                                    *)
(***************************************************************************)
TransitionOrder ==
    (op = "Next" /\ err # "list") =>
        /\ \A i, j \in DOMAIN Batch(trace) :
              (Batch(trace)[i].kind = "deleted" /\ Batch(trace)[j].kind = "status") => j < i
        /\ \E f \in [DOMAIN StatusLines(trace) -> DOMAIN units] :
              /\ \A i, j \in DOMAIN f : i < j => f[i] < f[j]
              /\ \A i \in DOMAIN f : StatusLines(trace)[i].u = units[f[i]]

\* A cycle logged the change of a listed unit and then the deletion of one
\* that is no longer listed.
TransitionOrderWitness ==
    /\ op = "Next" /\ err = "nil"
    /\ Len(Batch(trace)) = 2
    /\ Batch(trace)[1].kind = "status"
    /\ Batch(trace)[2].kind = "deleted"

(***************************************************************************)
(* C16. A failed store causes staleness, not corruption.  When store fails *)
(* in a poll cycle, at the opening of the file or part-way through the     *)
(* writing, Next returns the error, sd.state keeps the updated snapshot,   *)
(* and the state file is as it was before the cycle, absent or holding the *)
(* snapshot stored before: load of it does not fail and yields what it     *)
(* yielded before the cycle.  (store writes into the state file itself,    *)
(* from offset 0: a write that fails part-way leaves a truncated stream.)  *)
(***************************************************************************)
FailedStoreLeavesFileStale ==
    [][(op' = "Next" /\ err' = "store") =>
        /\ pc' = "idle"
        /\ state' = AsMap(units')
        /\ ~exists => ~exists'
        /\ load(exists', file', FALSE, FALSE).err = "nil"
        /\ load(exists', file', FALSE, FALSE).state = load(exists, file, FALSE, FALSE).state
    ]_vars

(***************************************************************************)
(* C17. Deterministic output.  From the sd.state a watcher holds, a poll   *)
(* cycle over a given listing can log only one sequence of lines: two runs *)
(* of the cycle log the same lines in the same order, the deleted lines    *)
(* included when several units disappeared.  (The deletions are logged in  *)
(* the order of a range over the map sd.state, which Go leaves             *)
(* unspecified and randomizes.)                                            *)
(***************************************************************************)
DeterministicOutput ==
    pc \in {"idle", "loop"} =>
        \A ls \in Listings :
            \A o1, o2 \in CycleOrders(ls) : Cycle(ls, o1).logs = Cycle(ls, o2).logs

(***************************************************************************)
(* C18. No connection leak on failed construction.  Whenever New has       *)
(* returned an error, because dbus.New failed or because load failed, the  *)
(* connection that call opened, if any, is not left open.  (New returns    *)
(* the error of load without closing the connection it opened.)            *)
(***************************************************************************)
NoConnectionLeak ==
    (op = "New" /\ err # "nil") => conn \in {"none", "closed"}

====
